---- MODULE Spec2Model ----
(***************************************************************************)
(* A model of the SFTP server session engine (SftpServerSession): the      *)
(* handle table, the per-handle lock and task queue, the dispatcher, the   *)
(* request handlers with their backend callbacks, and session end.         *)
(*                                                                         *)
(* The session runs on one executor.  One step of the model is one turn of *)
(* that executor: the arrival of a message (_process), the completion of a *)
(* backend call (its callback), or end().  Everything a turn does          *)
(* synchronously, the nested send -> processNext -> task -> processRequest *)
(* chain included, happens inside the step.                                *)
(***************************************************************************)
EXTENDS Integers, Sequences, FiniteSets, Bags, TLC

\* SftpServerSession.MAX_HANDLE_COUNT
MAX_HANDLE_COUNT == 512

\* processRequest: request.length > 66000
MaxPacketLength == 66000

\* READDIR: response.position > 0x7000
ReaddirSoftLimit == 28672

\* READDIR: the writer position after response.start() and writeInt32(0):
\* length (4), type (1), request id (4), item count (4)
NameItemsStart == 13

\* READ: if (count > 0x8000) count = 0x8000
ReadCap == 32768

\* Bounds of the model: the number of messages the channel delivers in the
\* general, the queue and the full-table specification.
MaxReq == 2

MaxQueueReq == 3

MaxFullReq == 3

\* Bounds of the directory specification: the number of items of the
\* directory and the number of READDIR requests.
DirLen == 7

MaxDirReq == 4

\* Bound of the read specification: the number of READ requests.
MaxReadReq == 3

\* Bound of the open specification: the number of messages.
MaxOpenReq == 2

\* Bound of the table specification: the number of messages.
MaxTableReq == 2

\* Bound of the error specification: the number of messages.
MaxErrorReq == 2

\* Bound of the exception specification: the number of messages.
MaxThrowReq == 3

\* Bound of the accept specification: the number of messages.
MaxAcceptReq == 3

\* Bound of the close specification: the number of messages.
MaxCloseReq == 2

VARIABLES
    fs,           \* this._fs is defined (TRUE) or has been deleted by end() (FALSE)
    channelOpen,  \* FALSE once this._channel.close() has been called
    handles,      \* this._handles: a sparse array, index -> identity of the record in the slot
    nextHandle,   \* this.nextHandle
    infos,        \* the SftpHandleInfo objects ever created, by identity (1, 2, ...)
    calls,        \* backend filesystem calls in flight, each with the data of its callback
    sent,         \* bag of the packets handed to this._channel.send
    reqs,         \* the messages delivered so far; a request's id is its position
    bound,        \* per message: the record readHandleInfo resolved it to (0: none)
    issued,       \* per message: the backend calls made for it so far, in order
    opened,       \* number of backend handles the backend has produced (handles 1..opened)
    closeLog,     \* bag of the handle arguments passed to fs.close
    late,         \* bag of the backend operations invoked after end() dropped this._fs
    uncaught,     \* an exception has escaped a backend callback or an event handler
    directory,    \* the backend: the items of a directory, in the order readdir returns them
    dirPos,       \* the backend: per directory handle, how many items readdir has returned
    readLog,      \* the backend: per message, the bytesRead values read has reported for it
    fault,        \* the backend: the error it reports when an operation fails
    emitted,      \* the events emitted on the parent emitter, in order
    listeners,    \* the parent emitter: the number of listeners per event name
    closeEvents   \* the errors of the close events the channel has delivered, in order

vars == <<fs, channelOpen, handles, nextHandle, infos, calls, sent, reqs, bound,
          issued, opened, closeLog, late, uncaught, directory, dirPos,
          readLog, fault, emitted, listeners, closeEvents>>

-----------------------------------------------------------------------------
(* Packet types and the groups the dispatcher distinguishes.               *)

\* the types _process resolves a handle for
HandleBound == {"CLOSE", "READ", "WRITE", "FSTAT", "FSETSTAT", "READDIR"}

\* handlers that make one backend call on a path and reply through sendSuccess
PathSuccessTypes == {"SETSTAT", "REMOVE", "MKDIR", "RMDIR", "RENAME", "SYMLINK", "HARDLINK"}

\* handlers that make one backend call on a path and reply through sendAttribs
PathAttribsTypes == {"LSTAT", "STAT"}

\* handlers that make one backend call on a path and reply through sendPath
PathNameTypes == {"REALPATH", "READLINK"}

\* the backend operation a single-call handler invokes
FsOp(type) ==
    CASE type = "READ" -> "read"
      [] type = "WRITE" -> "write"
      [] type = "FSTAT" -> "fstat"
      [] type = "FSETSTAT" -> "fsetstat"
      [] type = "LSTAT" -> "lstat"
      [] type = "STAT" -> "stat"
      [] type = "SETSTAT" -> "setstat"
      [] type = "REMOVE" -> "unlink"
      [] type = "MKDIR" -> "mkdir"
      [] type = "RMDIR" -> "rmdir"
      [] type = "REALPATH" -> "realpath"
      [] type = "RENAME" -> "rename"
      [] type = "READLINK" -> "readlink"
      [] type = "SYMLINK" -> "symlink"
      [] type = "HARDLINK" -> "link"

-----------------------------------------------------------------------------
(* SftpException: the status code and message of a backend error.          *)

\* a constructor without the table: every error is a FAILURE
SftpExceptionWithoutTable(errno, isPublic, message) ==
    [code |-> "FAILURE",
     message |-> IF isPublic THEN message
                 ELSE "Unknown error (" \o ToString(errno) \o ")"]

SftpException(errno, isPublic, message) ==
    CASE errno = 1 -> [code |-> "EOF", message |-> "End of file"]
      [] errno = 3 -> [code |-> "PERMISSION_DENIED", message |-> "Permission denied"]
      [] errno = 4 -> [code |-> "FAILURE", message |-> "Try again"]
      [] errno = 9 -> [code |-> "FAILURE", message |-> "Bad file number"]
      [] errno = 10 -> [code |-> "FAILURE", message |-> "Device or resource busy"]
      [] errno = 18 -> [code |-> "FAILURE", message |-> "Invalid argument"]
      [] errno = 20 -> [code |-> "FAILURE", message |-> "Too many open files"]
      [] errno = 24 -> [code |-> "FAILURE", message |-> "File table overflow"]
      [] errno = 25 -> [code |-> "FAILURE", message |-> "No buffer space available"]
      [] errno = 26 -> [code |-> "FAILURE", message |-> "Out of memory"]
      [] errno = 27 -> [code |-> "FAILURE", message |-> "Not a directory"]
      [] errno = 28 -> [code |-> "FAILURE", message |-> "Is a directory"]
      [] errno \in {-2, -4058, 34} ->
            [code |-> "NO_SUCH_FILE", message |-> "No such file or directory"]
      [] errno = 35 -> [code |-> "OP_UNSUPPORTED", message |-> "Function not implemented"]
      [] errno = 47 -> [code |-> "FAILURE", message |-> "File exists"]
      [] errno = 49 -> [code |-> "FAILURE", message |-> "File name too long"]
      [] errno = 50 -> [code |-> "FAILURE", message |-> "Operation not permitted"]
      [] errno = 51 -> [code |-> "FAILURE", message |-> "Too many symbolic links encountered"]
      [] errno = 52 -> [code |-> "FAILURE", message |-> "Cross-device link"]
      [] errno = 53 -> [code |-> "FAILURE", message |-> "Directory not empty"]
      [] errno = 54 -> [code |-> "FAILURE", message |-> "No space left on device"]
      [] errno = 55 -> [code |-> "FAILURE", message |-> "I/O error"]
      [] errno = 56 -> [code |-> "FAILURE", message |-> "Read-only file system"]
      [] errno = 57 -> [code |-> "NO_SUCH_FILE", message |-> "No such device"]
      [] errno = 58 -> [code |-> "FAILURE", message |-> "Illegal seek"]
      [] errno = 59 -> [code |-> "FAILURE", message |-> "Operation canceled"]
      [] OTHER -> [code |-> "FAILURE",
                   message |-> IF isPublic THEN message
                               ELSE "Unknown error (" \o ToString(errno) \o ")"]

\* An error object: its errno property (hasErrno: the property is present),
\* its isPublic mark and its message.
Error(errno, hasErrno, isPublic, message) ==
    [errno |-> errno, hasErrno |-> hasErrno, isPublic |-> isPublic, message |-> message]

\* err.errno | 0: a missing errno (undefined) gives 0, and an integer of the
\* signed 32-bit range, which is all an errno is here, is left as it is
Errno(err) == IF err.hasErrno THEN err.errno ELSE 0

\* The error of the general specifications' backend.
ENOENT == Error(34, TRUE, FALSE, "ENOENT")

\* The errors the modelled backend reports.
BackendErrors == {fault}

\* The parent emitter of the general specifications: nobody listens.
NoListeners == [closedSession |-> 0, error |-> 0]

-----------------------------------------------------------------------------
(* The session as a value.  The handlers below are functions from session  *)
(* to session, so that one handler can run inside another, as send runs    *)
(* processNext, which runs a queued task, which runs processRequest.       *)

State ==
    [fs |-> fs, channelOpen |-> channelOpen, handles |-> handles,
     nextHandle |-> nextHandle, infos |-> infos, calls |-> calls, sent |-> sent,
     reqs |-> reqs, bound |-> bound, issued |-> issued, opened |-> opened,
     closeLog |-> closeLog, late |-> late, uncaught |-> uncaught,
     directory |-> directory, dirPos |-> dirPos, readLog |-> readLog,
     fault |-> fault, emitted |-> emitted, listeners |-> listeners,
     closeEvents |-> closeEvents]

Install(s) ==
    /\ fs' = s.fs
    /\ channelOpen' = s.channelOpen
    /\ handles' = s.handles
    /\ nextHandle' = s.nextHandle
    /\ infos' = s.infos
    /\ calls' = s.calls
    /\ sent' = s.sent
    /\ reqs' = s.reqs
    /\ bound' = s.bound
    /\ issued' = s.issued
    /\ opened' = s.opened
    /\ closeLog' = s.closeLog
    /\ late' = s.late
    /\ uncaught' = s.uncaught
    /\ directory' = s.directory
    /\ dirPos' = s.dirPos
    /\ readLog' = s.readLog
    /\ fault' = s.fault
    /\ emitted' = s.emitted
    /\ listeners' = s.listeners
    /\ closeEvents' = s.closeEvents

\* new SftpHandleInfo(h).  The backend handle is undefined (0) until it is
\* assigned.  items is null or a list; null is kept as the empty list, which
\* the only reader (READDIR, previous != null && previous.length > 0) treats alike.
\* A task is kept as the id of the request its closure holds.
SftpHandleInfo(h) ==
    [h |-> h, handle |-> 0, items |-> <<>>, locked |-> FALSE, tasks |-> <<>>]

\* new SftpResponse(), with the id and the handleInfo _process gives it
\* (handleInfo 0: the property was never set)
SftpResponse(id, handleInfo) == [id |-> id, handleInfo |-> handleInfo]

StatusPacket(id, code, message) ==
    [type |-> "STATUS", id |-> id, code |-> code, message |-> message]

\* A backend call in flight and what its callback closes over: the backend
\* operation, the callback (k), the handle argument, the response, the record
\* the handler's handleInfo variable refers to, the modes OPEN has left to try,
\* and the items READDIR has written into its response with the writer position.
\* mode is the mode argument of fs.open and count the length argument of fs.read.
Call(op, k, handle, response, info, modes, written, position) ==
    [op |-> op, k |-> k, handle |-> handle, response |-> response, info |-> info,
     modes |-> modes, written |-> written, position |-> position,
     mode |-> "", count |-> 0]

\* the backend is invoked: fs.<op>(..., callback)
issue(s, c) ==
    [s EXCEPT !.calls = @ \cup {c},
              !.issued = IF c.response.id > 0
                         THEN [@ EXCEPT ![c.response.id] = Append(@, c.op)] ELSE @,
              !.closeLog = IF c.op = "close" THEN @ (+) SetToBag({c.handle}) ELSE @,
              !.late = IF s.fs THEN @ ELSE @ (+) SetToBag({c.op})]

-----------------------------------------------------------------------------
(* The handle table.                                                       *)

\* a scan that starts at slot 1 whatever the cursor
ScanFromLowest(table, h) ==
    IF \A i \in 1 .. MAX_HANDLE_COUNT : i \in DOMAIN table THEN 0
    ELSE CHOOSE i \in 1 .. MAX_HANDLE_COUNT :
            i \notin DOMAIN table /\ \A j \in 1 .. (i - 1) : j \in DOMAIN table

\* The loop of createHandleInfo from cursor h: iteration i (0 .. max-1) looks
\* at slot ((h - 1 + i) % max) + 1, which is h advanced i times by
\* next = (h % max) + 1.  The slot of the first iteration that finds its slot
\* free, or 0 when no iteration does.
ScanFrom(table, h) ==
    LET slot(i) == ((h - 1 + i) % MAX_HANDLE_COUNT) + 1
        free(i) == slot(i) \notin DOMAIN table
        iterations == 0 .. (MAX_HANDLE_COUNT - 1)
    IN  IF \A i \in iterations : ~free(i) THEN 0
        ELSE slot(CHOOSE i \in iterations : free(i) /\ \A j \in 0 .. (i - 1) : ~free(j))

\* createHandleInfo that, finding no free slot, takes the slot at the cursor
createHandleInfoEvicts(s) ==
    LET free == ScanFrom(s.handles, s.nextHandle)
        h == IF free = 0 THEN s.nextHandle ELSE free
        id == Len(s.infos) + 1
    IN  [s |-> [s EXCEPT !.infos = Append(@, SftpHandleInfo(h)),
                         !.handles = [i \in DOMAIN @ \cup {h} |->
                                         IF i = h THEN id ELSE @[i]],
                         !.nextHandle = (h % MAX_HANDLE_COUNT) + 1],
         info |-> id]

\* [s: the session afterwards, info: the new record, or 0 for null]
createHandleInfo(s) ==
    LET h == ScanFrom(s.handles, s.nextHandle)
        id == Len(s.infos) + 1
    IN  IF h = 0 THEN [s |-> s, info |-> 0]
        ELSE [s |-> [s EXCEPT !.infos = Append(@, SftpHandleInfo(h)),
                              !.handles = [i \in DOMAIN @ \cup {h} |->
                                              IF i = h THEN id ELSE @[i]],
                              !.nextHandle = (h % MAX_HANDLE_COUNT) + 1],
              info |-> id]

\* deleteHandleInfo that frees the slot and leaves the record unmarked
deleteHandleInfoWithoutMark(s, handleInfo) ==
    LET h == s.infos[handleInfo].h
    IN  [s |-> [s EXCEPT !.handles = [i \in DOMAIN @ \ {h} |-> @[i]]], threw |-> FALSE]

\* deleteHandleInfo that marks the record and leaves it in its slot
deleteHandleInfoKeepsSlot(s, handleInfo) ==
    [s |-> [s EXCEPT !.infos[handleInfo].h = -1], threw |-> FALSE]

\* [s: the session afterwards, threw: "Handle not found" was thrown]
deleteHandleInfo(s, handleInfo) ==
    LET h == s.infos[handleInfo].h
        s1 == [s EXCEPT !.infos[handleInfo].h = -1]
    IN  IF h < 0 THEN [s |-> s, threw |-> FALSE]
        ELSE IF h \notin DOMAIN s.handles THEN [s |-> s1, threw |-> TRUE]
        ELSE [s |-> [s1 EXCEPT !.handles = [i \in DOMAIN @ \ {h} |-> @[i]]],
              threw |-> FALSE]

\* readHandleInfo without the check of the handle's length
readHandleInfoAnyLength(s, request) ==
    IF request.h \notin DOMAIN s.handles THEN 0
    ELSE s.handles[request.h]

\* [handle length, handle index] -> the record, or 0 for null
readHandleInfo(s, request) ==
    IF request.hlen # 4 THEN 0
    ELSE IF request.h \notin DOMAIN s.handles THEN 0
    ELSE s.handles[request.h]

-----------------------------------------------------------------------------
(* Sending, and the per-handle task queue.                                 *)

RECURSIVE send(_, _, _), processNext(_, _), processRequest(_, _, _, _)

sendStatus(s, response, code, message) ==
    send(s, response, StatusPacket(response.id, code, message))

\* sendError that reports a caught exception as it reports a backend error
sendErrorNeverFatal(s, response, err, isFatal) ==
    LET error == SftpException(Errno(err), err.isPublic, err.message)
    IN  send(s, response, StatusPacket(response.id, error.code, error.message))

sendError(s, response, err, isFatal) ==
    LET error == SftpException(Errno(err), err.isPublic, err.message)
    IN  IF ~isFatal
        THEN send(s, response, StatusPacket(response.id, error.code, error.message))
        ELSE send(s, response, StatusPacket(response.id, "FAILURE", "Internal server error"))

\* sendSuccess after sendIfError has returned false
sendSuccess(s, response) ==
    send(s, response, StatusPacket(response.id, "OK", "Success"))

sendAttribs(s, response) ==
    send(s, response, [type |-> "ATTRS", id |-> response.id])

sendHandle(s, response, handleInfo) ==
    send(s, response, [type |-> "HANDLE", id |-> response.id, h |-> s.infos[handleInfo].h])

sendPath(s, response) ==
    send(s, response, [type |-> "NAME", id |-> response.id, items |-> <<"path">>])

\* send that hands the packet to the channel and starts no task
sendWithoutProcessNext(s, response, packet) ==
    [s EXCEPT !.sent = @ (+) SetToBag({packet})]

\* this._channel.send(packet), then the next task of the response's handle
send(s, response, packet) ==
    LET s1 == [s EXCEPT !.sent = @ (+) SetToBag({packet})]
    IN  IF response.handleInfo # 0 THEN processNext(s1, response.handleInfo) ELSE s1

\* the queued closure without its check of the tombstone
taskWithoutTombstoneCheck(s, request, handleInfo) ==
    processRequest(s, request, SftpResponse(request, handleInfo), handleInfo)

\* the closure _process queues behind a locked handle
task(s, request, handleInfo) ==
    IF s.infos[handleInfo].h < 0
    THEN sendStatus(s, SftpResponse(request, handleInfo), "FAILURE", "Invalid handle")
    ELSE processRequest(s, request, SftpResponse(request, handleInfo), handleInfo)

\* processNext that releases the lock and leaves the queue alone
processNextOnlyUnlocks(s, handleInfo) ==
    [s EXCEPT !.infos[handleInfo].locked = FALSE]

processNext(s, handleInfo) ==
    IF Len(s.infos[handleInfo].tasks) > 0
    THEN task([s EXCEPT !.infos[handleInfo].tasks = Tail(@)],
              Head(s.infos[handleInfo].tasks), handleInfo)
    ELSE [s EXCEPT !.infos[handleInfo].locked = FALSE]

-----------------------------------------------------------------------------
(* The request handlers.                                                   *)

\* openFile() that tries the first mode only
openFileFirstModeOnly(s, response, handleInfo, modes) ==
    issue(s, [Call("open", "open", 0, response, handleInfo, <<>>, <<>>, 0)
                 EXCEPT !.mode = Head(modes)])

\* OPEN: openFile(), with the modes still to try
openFile(s, response, handleInfo, modes) ==
    issue(s, [Call("open", "open", 0, response, handleInfo, Tail(modes), <<>>, 0)
                 EXCEPT !.mode = Head(modes)])

\* READDIR: done(), with the items written into the response
done(s, response, written) ==
    IF Len(written) = 0
    THEN sendStatus(s, response, "EOF", "EOF")
    ELSE send(s, response, [type |-> "NAME", id |-> response.id, items |-> written])

\* READDIR: readdir()
readdir(s, response, handleInfo, written, position) ==
    issue(s, Call("readdir", "readdir", s.infos[handleInfo].handle, response,
                  handleInfo, <<>>, written, position))

\* A directory item: its name and the number of bytes writeItem serializes it
\* to (filename, longname and attributes).
Item(name, size) == [name |-> name, size |-> size]

\* writeItem(response, item): the writer position afterwards
writeItem(position, item) == position + item.size

\* the loop of next() without the check of the soft limit
writeItemsUnlimited(list, written, position) ==
    [list |-> <<>>, written |-> written \o list, position |-> position, full |-> FALSE]

\* READDIR: the loop of next().
\* [list: the items left, written, position, full: the soft limit was passed]
RECURSIVE writeItems(_, _, _)
writeItems(list, written, position) ==
    IF Len(list) = 0
    THEN [list |-> list, written |-> written, position |-> position, full |-> FALSE]
    ELSE LET item == Head(list)
             w == Append(written, item)
             p == writeItem(position, item)
         IN  IF p > ReaddirSoftLimit
             THEN [list |-> Tail(list), written |-> w, position |-> p, full |-> TRUE]
             ELSE writeItems(Tail(list), w, p)

\* next() that, past the soft limit, sends the packet without keeping the rest
nextDropsRest(s, response, handleInfo, isFalse, items, written, position) ==
    IF isFalse THEN done(s, response, written)
    ELSE LET r == writeItems(items, written, position)
         IN  IF r.full
             THEN done(s, response, r.written)
             ELSE readdir(s, response, handleInfo, r.written, r.position)

\* READDIR: next(items); isFalse: items === false
next(s, response, handleInfo, isFalse, items, written, position) ==
    IF isFalse THEN done(s, response, written)
    ELSE LET r == writeItems(items, written, position)
         IN  IF r.full
             THEN done([s EXCEPT !.infos[handleInfo].items = r.list], response, r.written)
             ELSE readdir(s, response, handleInfo, r.written, r.position)

\* The types whose case in processRequest reads fields of the payload before
\* it does anything else; CLOSE, FSTAT and READDIR read nothing after the handle.
PayloadTypes ==
    {"OPEN", "READ", "WRITE", "FSETSTAT", "OPENDIR"}
    \cup PathAttribsTypes \cup PathSuccessTypes \cup PathNameTypes

\* The exception the packet reader throws at a field that is cut short.  It
\* carries an errno and is public, as any exception may.
ReaderException == Error(3, TRUE, TRUE, "Unexpected end of packet")

\* the reader throws while processRequest reads the payload
ThrowsInRequest(req) == req.malformed = "payload" /\ req.type \in PayloadTypes

\* The reader throws in _process before processRequest is entered: in the
\* constructor of the reader (header), in readHandleInfo (handle), or at the
\* version of an INIT (payload).  Nothing of the session has changed by then.
ThrowsInProcess(req) ==
    \/ req.malformed = "header"
    \/ req.malformed = "handle" /\ req.type \in HandleBound
    \/ req.malformed = "payload" /\ req.type = "INIT"

\* READ without the cap on the count
ReadCountUncapped(count) == count

\* READ: the count passed to fs.read for a requested count
ReadCount(count) == IF count > ReadCap THEN ReadCap ELSE count

processRequest(s, request, response, handleInfo) ==
    LET req == s.reqs[request]
    IN  IF ~s.fs THEN s
        ELSE IF req.length > MaxPacketLength
        THEN sendStatus(s, response, "BAD_MESSAGE", "Packet too long")
        ELSE IF ThrowsInRequest(req)
        THEN sendError(s, response, ReaderException, TRUE)
        ELSE CASE req.type = "OPEN" ->
                    IF Len(req.modes) = 0
                    THEN sendStatus(s, response, "FAILURE", "Unsupported flags")
                    ELSE LET c == createHandleInfo(s)
                         IN  IF c.info = 0
                             THEN sendStatus(s, response, "FAILURE", "Too many open handles")
                             ELSE openFile(c.s, response, c.info, req.modes)
               [] req.type = "CLOSE" ->
                    LET d == deleteHandleInfo(s, handleInfo)
                    IN  IF d.threw
                        THEN sendError(d.s, response,
                                       Error(0, FALSE, FALSE, "Handle not found"), TRUE)
                        ELSE issue(d.s, Call("close", "success", d.s.infos[handleInfo].handle,
                                             response, handleInfo, <<>>, <<>>, 0))
               [] req.type = "READ" ->
                    issue(s, [Call("read", "read", s.infos[handleInfo].handle,
                                   response, handleInfo, <<>>, <<>>, 0)
                                 EXCEPT !.count = ReadCount(req.int32)])
               [] req.type \in {"WRITE", "FSETSTAT"} ->
                    issue(s, Call(FsOp(req.type), "success", s.infos[handleInfo].handle,
                                  response, handleInfo, <<>>, <<>>, 0))
               [] req.type = "FSTAT" ->
                    issue(s, Call("fstat", "attribs", s.infos[handleInfo].handle,
                                  response, handleInfo, <<>>, <<>>, 0))
               [] req.type \in PathAttribsTypes ->
                    issue(s, Call(FsOp(req.type), "attribs", 0, response, 0, <<>>, <<>>, 0))
               [] req.type \in PathSuccessTypes ->
                    issue(s, Call(FsOp(req.type), "success", 0, response, 0, <<>>, <<>>, 0))
               [] req.type \in PathNameTypes ->
                    issue(s, Call(FsOp(req.type), "path", 0, response, 0, <<>>, <<>>, 0))
               [] req.type = "OPENDIR" ->
                    LET c == createHandleInfo(s)
                    IN  IF c.info = 0
                        THEN sendStatus(s, response, "FAILURE", "Too many open handles")
                        ELSE issue(c.s, Call("opendir", "opendir", 0, response, c.info,
                                             <<>>, <<>>, 0))
               [] req.type = "READDIR" ->
                    LET previous == s.infos[handleInfo].items
                    IN  IF Len(previous) > 0
                        THEN next([s EXCEPT !.infos[handleInfo].items = <<>>], response,
                                  handleInfo, FALSE, previous, <<>>, NameItemsStart)
                        ELSE readdir(s, response, handleInfo, <<>>, NameItemsStart)
               [] OTHER -> sendStatus(s, response, "OP_UNSUPPORTED", "Not supported")

\* _process that runs a handle-bound request at once, locked or not
processIgnoresLock(s, request) ==
    LET req == s.reqs[request]
        handleInfo == readHandleInfo(s, req)
    IN  IF req.type = "INIT"
        THEN send(s, SftpResponse(0, 0), [type |-> "VERSION", version |-> 3])
        ELSE IF req.type \in HandleBound
        THEN IF handleInfo = 0
             THEN sendStatus(s, SftpResponse(request, 0), "FAILURE", "Invalid handle")
             ELSE processRequest([s EXCEPT !.infos[handleInfo].locked = TRUE], request,
                                 SftpResponse(request, handleInfo), handleInfo)
        ELSE processRequest(s, request, SftpResponse(request, 0), 0)

\* the INIT branch answering with the version the client sent
processInitEchoesVersion(s, request) ==
    send(s, SftpResponse(0, 0), [type |-> "VERSION", version |-> s.reqs[request].int32])

\* _process that queues a handle-bound request while any handle is locked
processOneAtATime(s, request) ==
    LET req == s.reqs[request]
        handleInfo == readHandleInfo(s, req)
    IN  IF req.type = "INIT"
        THEN send(s, SftpResponse(0, 0), [type |-> "VERSION", version |-> 3])
        ELSE IF req.type \in HandleBound
        THEN IF handleInfo = 0
             THEN sendStatus(s, SftpResponse(request, 0), "FAILURE", "Invalid handle")
             ELSE IF \A k \in 1 .. Len(s.infos) : ~s.infos[k].locked
             THEN processRequest([s EXCEPT !.infos[handleInfo].locked = TRUE], request,
                                 SftpResponse(request, handleInfo), handleInfo)
             ELSE [s EXCEPT !.infos[handleInfo].tasks = Append(@, request)]
        ELSE processRequest(s, request, SftpResponse(request, 0), 0)

\* _process: the INIT branch.  The client's version is read and not used.
processInit(s, request) ==
    send(s, SftpResponse(0, 0), [type |-> "VERSION", version |-> 3])

\* _process(data), the message being request number `request` of s.reqs
process(s, request) ==
    LET req == s.reqs[request]
        handleInfo == readHandleInfo(s, req)
    IN  IF req.type = "INIT"
        THEN processInit(s, request)
        ELSE IF req.type \in HandleBound
        THEN IF handleInfo = 0
             THEN sendStatus(s, SftpResponse(request, 0), "FAILURE", "Invalid handle")
             ELSE IF ~s.infos[handleInfo].locked
             THEN processRequest([s EXCEPT !.infos[handleInfo].locked = TRUE], request,
                                 SftpResponse(request, handleInfo), handleInfo)
             ELSE [s EXCEPT !.infos[handleInfo].tasks = Append(@, request)]
        ELSE processRequest(s, request, SftpResponse(request, 0), 0)

\* emitter.emit(name, ...) on the parent, an EventEmitter.  [s: the session
\* afterwards, handled: emit's result, whether the event had a listener,
\* threw: an `error` event without a listener makes emit throw its argument]
emit(s, name, err) ==
    [s |-> [s EXCEPT !.emitted = Append(@, [name |-> name, err |-> err])],
     handled |-> s.listeners[name] > 0,
     threw |-> name = "error" /\ s.listeners[name] = 0]

\* end()
end(s) ==
    LET closes == {Call("close", "end", s.infos[s.handles[i]].handle, SftpResponse(0, 0),
                        s.handles[i], <<>>, <<>>, 0) : i \in DOMAIN s.handles}
        args == {c.handle : c \in closes}
        times(a) == Cardinality({c \in closes : c.handle = a})
        s1 == [s EXCEPT !.channelOpen = FALSE]
    IN  IF ~s.fs THEN s1
        ELSE [s1 EXCEPT !.calls = @ \cup closes,
                        !.closeLog = @ (+) [a \in args |-> times(a)],
                        !.fs = FALSE]

\* The err argument of the channel's close event: null, or an error with a code.
Null == [isNull |-> TRUE, code |-> ""]

ChannelError(code) == [isNull |-> FALSE, code |-> code]

\* a close handler that re-emits an error whether or not closedSession was heard
onCloseAlwaysReemits(s, err) ==
    LET reported == IF err.isNull \/ err.code \in {"ECONNABORTED", "X_GOINGAWAY"}
                    THEN Null ELSE err
        e == emit(end(s), "closedSession", reported)
    IN  IF ~reported.isNull /\ e.s.listeners["error"] > 0
        THEN emit(e.s, "error", reported).s
        ELSE e.s

\* channel.on("close", ...)
onClose(s, err) ==
    LET reported == IF err.isNull \/ err.code \in {"ECONNABORTED", "X_GOINGAWAY"}
                    THEN Null ELSE err
        e == emit(end(s), "closedSession", reported)
    IN  IF ~e.handled /\ ~reported.isNull /\ e.s.listeners["error"] > 0
        THEN emit(e.s, "error", reported).s
        ELSE e.s

\* channel.on("message", ...): _process, and the catch around it.  An
\* exception emit throws in the catch block leaves the handler before end().
onMessage(s, request) ==
    IF ThrowsInProcess(s.reqs[request])
    THEN LET e == emit(s, "error", ReaderException)
         IN  IF e.threw THEN [e.s EXCEPT !.uncaught = TRUE] ELSE end(e.s)
    ELSE process(s, request)

-----------------------------------------------------------------------------
(* The backend's answers and the callbacks they run.                       *)

NoError == Error(0, FALSE, FALSE, "")

Result(kind, error, items) ==
    [kind |-> kind, error |-> error, items |-> items, bytesRead |-> 0]

\* The directory of the general specifications: each item serializes to
\* 0x4000 bytes, so that a response passes the soft limit at its second item.
Directory == <<Item(1, 16384), Item(2, 16384), Item(3, 16384)>>

\* the items readdir has not yet returned for a directory handle
Remaining(s, handle) ==
    LET pos == IF handle \in DOMAIN s.dirPos THEN s.dirPos[handle] ELSE 0
    IN  SubSeq(s.directory, pos + 1, Len(s.directory))

\* The lists readdir may return next: the next item alone, or all that remain.
DirChunks(s, handle) ==
    LET rest == Remaining(s, handle)
    IN  IF Len(rest) = 0 THEN {} ELSE {SubSeq(rest, 1, 1), rest}

\* The numbers of bytes read may report for a count: none, one, or all of them.
BytesRead(count) == {n \in {0, 1, count} : 0 <= n /\ n <= count}

\* What the backend may answer to a call in flight.  err: the callback gets an
\* error; ok: success; read: read reports bytesRead; false: readdir reports
\* the end of the directory; items: readdir returns a list.
Results(c) ==
    IF c.k = "end" THEN {Result("ok", NoError, <<>>)}
    ELSE {Result("err", e, <<>>) : e \in BackendErrors}
         \cup (CASE c.k = "read" ->
                       {[Result("read", NoError, <<>>) EXCEPT !.bytesRead = n] :
                           n \in BytesRead(c.count)}
                 [] c.k = "readdir" ->
                       IF DirChunks(State, c.handle) = {}
                       THEN {Result("false", NoError, <<>>)}
                       ELSE {Result("items", NoError, l) : l \in DirChunks(State, c.handle)}
                 [] OTHER -> {Result("ok", NoError, <<>>)})

\* the backend's own step when it answers call c: readdir moves on in the
\* directory, read reports the number of bytes it has read
serve(s, c, res) ==
    IF c.op = "readdir" /\ res.kind = "items"
    THEN [s EXCEPT !.dirPos = [h \in DOMAIN @ \cup {c.handle} |->
                                  IF h = c.handle
                                  THEN Len(s.directory) - Len(Remaining(s, h))
                                       + Len(res.items)
                                  ELSE @[h]]]
    ELSE IF c.op = "read" /\ res.kind = "read"
    THEN [s EXCEPT !.readLog[c.response.id] = Append(@, res.bytesRead)]
    ELSE s

\* deleteHandleInfo in a callback: an exception it throws escapes the callback
deleteInCallback(s, handleInfo) ==
    LET d == deleteHandleInfo(s, handleInfo)
    IN  IF d.threw THEN [d.s EXCEPT !.uncaught = TRUE] ELSE d.s

\* the callback of call c, run with the backend's answer
callback(s, c, res) ==
    LET isErr == res.kind = "err"
        handle == s.opened + 1   \* the handle a successful open or opendir produces
    IN  CASE c.k = "end" -> s
          [] c.k = "open" ->
                IF isErr
                THEN deleteInCallback(sendError(s, c.response, res.error, FALSE), c.info)
                ELSE IF Len(c.modes) = 0
                THEN sendHandle([s EXCEPT !.opened = handle,
                                          !.infos[c.info].handle = handle],
                                c.response, c.info)
                ELSE issue([s EXCEPT !.opened = handle],
                           Call("close", "openClose", handle, c.response, c.info,
                                c.modes, <<>>, 0))
          [] c.k = "openClose" ->
                IF isErr
                THEN deleteInCallback(sendError(s, c.response, res.error, FALSE), c.info)
                ELSE openFile(s, c.response, c.info, c.modes)
          [] c.k = "opendir" ->
                IF isErr
                THEN deleteInCallback(sendError(s, c.response, res.error, FALSE), c.info)
                ELSE sendHandle([s EXCEPT !.opened = handle,
                                          !.infos[c.info].handle = handle],
                                c.response, c.info)
          [] c.k = "success" ->
                IF isErr THEN sendError(s, c.response, res.error, FALSE)
                ELSE sendSuccess(s, c.response)
          [] c.k = "attribs" ->
                IF isErr THEN sendError(s, c.response, res.error, FALSE)
                ELSE sendAttribs(s, c.response)
          [] c.k = "path" ->
                IF isErr THEN sendError(s, c.response, res.error, FALSE)
                ELSE sendPath(s, c.response)
          [] c.k = "read" ->
                IF isErr THEN sendError(s, c.response, res.error, FALSE)
                ELSE IF res.bytesRead = 0 THEN sendStatus(s, c.response, "EOF", "EOF")
                ELSE send(s, c.response, [type |-> "DATA", id |-> c.response.id,
                                          length |-> res.bytesRead])
          [] c.k = "readdir" ->
                IF isErr THEN sendError(s, c.response, res.error, FALSE)
                ELSE next(s, c.response, c.info, res.kind = "false", res.items,
                          c.written, c.position)

-----------------------------------------------------------------------------
(* The messages the modelled client sends.                                 *)

\* type, declared length, length of the handle field, handle index, the
\* modes SftpFlags.fromNumber decodes the flags of an OPEN to, and the 32-bit
\* integer of the payload: the version of an INIT, the count of a READ
\* malformed: the part of the packet that is cut short, if any (header, handle
\* or payload; no: the packet is complete)
Request(type, length, hlen, h, modes, int32) ==
    [type |-> type, length |-> length, hlen |-> hlen, h |-> h, modes |-> modes,
     int32 |-> int32, malformed |-> "no"]

\* a packet cut short in one of its parts
Malformed(req, part) == [req EXCEPT !.malformed = part]

\* The messages of the general specification: every kind of request, at the
\* largest accepted length (66000) and, for some, one byte above it; handle
\* index 1 (the first index allocated), index 2, and a handle field of length 5.
Inputs ==
    {Request("INIT", 9, 4, 0, <<>>, 3),
     Request("OPEN", 66000, 4, 0, <<>>, 0),
     Request("OPEN", 66000, 4, 0, <<"r">>, 0),
     Request("OPEN", 66000, 4, 0, <<"wx", "w">>, 0),
     Request("OPEN", 66001, 4, 0, <<"r">>, 0),
     Request("OPENDIR", 66000, 4, 0, <<>>, 0),
     Request("STAT", 66000, 4, 0, <<>>, 0),
     Request("STAT", 66001, 4, 0, <<>>, 0),
     Request("STATUS", 66000, 4, 0, <<>>, 0),
     Request("CLOSE", 66000, 4, 1, <<>>, 0),
     Request("READ", 66000, 4, 1, <<>>, 1),
     Request("READ", 66001, 4, 1, <<>>, 1),
     Request("READDIR", 66000, 4, 1, <<>>, 0),
     Request("READ", 66000, 4, 2, <<>>, 1),
     Request("READ", 66001, 4, 2, <<>>, 1),
     Request("READ", 66000, 5, 1, <<>>, 1)}

\* The messages of the queue specification: requests on the open handles 1 and 2.
InputsQueue ==
    {Request("CLOSE", 66000, 4, 1, <<>>, 0),
     Request("READ", 66000, 4, 1, <<>>, 1),
     Request("READ", 66001, 4, 1, <<>>, 1),
     Request("READDIR", 66000, 4, 1, <<>>, 0),
     Request("WRITE", 66000, 4, 2, <<>>, 0)}

\* The messages of the directory specification: READDIR on the open handle 1.
InputsDir ==
    {Request("READDIR", 66000, 4, 1, <<>>, 0)}

\* The messages of the read specification: READ on the open handle 1 with a
\* count of nothing, one byte, and the cap 0x8000, one below and one above it.
InputsRead ==
    {Request("READ", 66000, 4, 1, <<>>, n) : n \in {0, 1, ReadCap - 1, ReadCap, ReadCap + 1}}

\* The messages of the open specification: INIT with the server's version and
\* with another one, OPEN with flags that decode to no, one, two and three
\* modes, and CLOSE and READ on the first two indexes.
InputsOpen ==
    {Request("INIT", 9, 4, 0, <<>>, 3),
     Request("INIT", 9, 4, 0, <<>>, 6),
     Request("OPEN", 66000, 4, 0, <<>>, 0),
     Request("OPEN", 66000, 4, 0, <<"r">>, 0),
     Request("OPEN", 66000, 4, 0, <<"wx", "w">>, 0),
     Request("OPEN", 66000, 4, 0, <<"ax", "a", "r+">>, 0),
     Request("CLOSE", 66000, 4, 1, <<>>, 0),
     Request("CLOSE", 66000, 4, 2, <<>>, 0),
     Request("READ", 66000, 4, 1, <<>>, 1)}

\* The messages of the table specification: OPEN, OPENDIR, and CLOSE of the
\* first, the second and the last index.
InputsTable ==
    {Request("OPEN", 66000, 4, 0, <<"r">>, 0),
     Request("OPENDIR", 66000, 4, 0, <<>>, 0),
     Request("CLOSE", 66000, 4, 1, <<>>, 0),
     Request("CLOSE", 66000, 4, 2, <<>>, 0),
     Request("CLOSE", 66000, 4, MAX_HANDLE_COUNT, <<>>, 0)}

\* The messages of the full-table specification.
InputsFull ==
    {Request("OPEN", 66000, 4, 0, <<>>, 0),
     Request("OPEN", 66000, 4, 0, <<"r">>, 0),
     Request("OPEN", 66001, 4, 0, <<"r">>, 0),
     Request("OPENDIR", 66000, 4, 0, <<>>, 0),
     Request("OPENDIR", 66001, 4, 0, <<>>, 0),
     Request("CLOSE", 66000, 4, 1, <<>>, 0),
     Request("FSTAT", 66000, 4, 1, <<>>, 0),
     Request("FSTAT", 66000, 4, 512, <<>>, 0)}

-----------------------------------------------------------------------------
(* The specifications.                                                     *)

\* the session after construction
Init ==
    /\ fs = TRUE
    /\ channelOpen = TRUE
    /\ handles = <<>>
    /\ nextHandle = 1
    /\ infos = <<>>
    /\ calls = {}
    /\ sent = EmptyBag
    /\ reqs = <<>>
    /\ bound = <<>>
    /\ issued = <<>>
    /\ opened = 0
    /\ closeLog = EmptyBag
    /\ late = EmptyBag
    /\ uncaught = FALSE
    /\ directory = Directory
    /\ dirPos = <<>>
    /\ readLog = <<>>
    /\ fault = ENOENT
    /\ emitted = <<>>
    /\ closeEvents = <<>>
    /\ listeners = NoListeners

\* The session after n OPEN requests have been answered with a HANDLE and
\* nothing else has happened: slots 1..n hold idle records with the backend
\* handles 1..n, and the cursor has advanced n times.  The messages and the
\* responses of those OPENs are not kept.
InitWith(n, d, e, l) ==
    /\ fs = TRUE
    /\ channelOpen = TRUE
    /\ handles = [i \in 1..n |-> i]
    /\ nextHandle = (n % MAX_HANDLE_COUNT) + 1
    /\ infos = [i \in 1..n |-> [SftpHandleInfo(i) EXCEPT !.handle = i]]
    /\ calls = {}
    /\ sent = EmptyBag
    /\ reqs = <<>>
    /\ bound = <<>>
    /\ issued = <<>>
    /\ opened = n
    /\ closeLog = EmptyBag
    /\ late = EmptyBag
    /\ uncaught = FALSE
    /\ directory = d
    /\ dirPos = <<>>
    /\ readLog = <<>>
    /\ fault = e
    /\ emitted = <<>>
    /\ closeEvents = <<>>
    /\ listeners = l

\* ... with the backend error and the parent emitter of the general specifications
InitOpenedOn(n, d) == InitWith(n, d, ENOENT, NoListeners)

\* ... with the directory of the general specifications behind every handle
InitOpened(n) == InitOpenedOn(n, Directory)

\* the channel delivers a message: channel.on("message", ...)
Receive(req, max) ==
    /\ Len(reqs) < max
    /\ LET request == Len(reqs) + 1
           s == [State EXCEPT !.reqs = Append(@, req),
                              !.bound = Append(@, IF req.type \in HandleBound
                                                     /\ ~ThrowsInProcess(req)
                                                  THEN readHandleInfo(State, req) ELSE 0),
                              !.issued = Append(@, <<>>),
                              !.readLog = Append(@, <<>>)]
       IN  Install(onMessage(s, request))

\* the backend completes a call and runs its callback
Complete(c, res) ==
    /\ c \in calls
    /\ Install(callback(serve([State EXCEPT !.calls = @ \ {c}], c, res), c, res))

\* end(): the channel closed, or the session is being terminated
End ==
    \E s \in {end(State)} : Install(s)

Completion == \E c \in calls : \E res \in Results(c) : Complete(c, res)

\* The general specification: a new session, or one with a file open.
Message == \E req \in Inputs : Receive(req, MaxReq)

Next == Message \/ Completion \/ End

Spec == (Init \/ InitOpened(1)) /\ [][Next]_vars

\* The queue specification: a session with two handles open.
MessageQueue == \E req \in InputsQueue : Receive(req, MaxQueueReq)

NextQueue == MessageQueue \/ Completion \/ End

SpecQueue == InitOpened(2) /\ [][NextQueue]_vars

\* The full-table specification: a session with all 512 handles open.
MessageFull == \E req \in InputsFull : Receive(req, MaxFullReq)

NextFull == MessageFull \/ Completion

SpecFull == InitOpened(MAX_HANDLE_COUNT) /\ [][NextFull]_vars

\* The sizes of the items of the directory specification.  Five items of 5328
\* bytes bring the writer to 26653; an item of 2019 bytes then brings it to
\* 0x7000 exactly and one of 2020 bytes one byte past it.  No item is larger
\* than the 5328 bytes the writer has left above 0x7000.
ItemSizes == {2019, 2020, 5328}

\* The directories of the directory specification: up to DirLen items, the
\* first five of 5328 bytes, the later ones of any of the sizes; named 1, 2, ...
Directories ==
    UNION {{[i \in 1 .. n |-> Item(i, IF i <= 5 THEN 5328 ELSE z[i])] :
               z \in [1 .. n -> ItemSizes]} :
           n \in 0 .. DirLen}

\* The directory specification: a session with one directory handle open, the
\* client sending READDIR after READDIR.
MessageDir == \E req \in InputsDir : Receive(req, MaxDirReq)

NextDir == MessageDir \/ Completion

SpecDir == (\E d \in Directories : InitOpenedOn(1, d)) /\ [][NextDir]_vars

\* The read specification: a session with one file handle open.
MessageRead == \E req \in InputsRead : Receive(req, MaxReadReq)

NextRead == MessageRead \/ Completion

SpecRead == InitOpened(1) /\ [][NextRead]_vars

\* The open specification: a new session, or one with a file open, the client
\* opening and closing files.
MessageOpen == \E req \in InputsOpen : Receive(req, MaxOpenReq)

NextOpen == MessageOpen \/ Completion

SpecOpen == (Init \/ InitOpened(1)) /\ [][NextOpen]_vars

\* The errno values SftpException lists.
ListedErrnos ==
    {1, 3, 4, 9, 10, 18, 20, 24, 25, 26, 27, 28, -2, -4058, 34, 35, 47, 49, 50, 51, 52,
     53, 54, 55, 56, 57, 58, 59}

\* The errors of the error specification: every listed errno, errnos next to
\* listed ones and at the ends of the 32-bit range, and an error without an
\* errno; each marked public or not, with a message of its own.
Faults ==
    {Error(n, TRUE, p, "Quota exceeded") :
        n \in ListedErrnos \cup {0, 2, -1, -13, 33, 36, 60, 2147483647, -2147483647},
        p \in BOOLEAN}
    \cup {Error(0, FALSE, p, "Quota exceeded") : p \in BOOLEAN}

\* The messages of the error specification: requests on a path and on the
\* open handle 1 that make one backend call each.
InputsError ==
    {Request("STAT", 66000, 4, 0, <<>>, 0),
     Request("REMOVE", 66000, 4, 0, <<>>, 0),
     Request("REALPATH", 66000, 4, 0, <<>>, 0),
     Request("WRITE", 66000, 4, 1, <<>>, 0)}

\* The error specification: a session with one file open, over a backend
\* that fails with one of the errors.
MessageError == \E req \in InputsError : Receive(req, MaxErrorReq)

NextError == MessageError \/ Completion

SpecError ==
    (\E e \in Faults : InitWith(1, Directory, e, NoListeners)) /\ [][NextError]_vars

\* The messages of the exception specification: complete requests, and
\* requests whose payload is cut short, on a path, on the open handle 1 and
\* on the unused index 2, one of them with a length above 66000.
InputsThrow ==
    {Request("WRITE", 66000, 4, 1, <<>>, 0),
     Request("OPEN", 66000, 4, 0, <<"r">>, 0),
     Malformed(Request("WRITE", 66000, 4, 1, <<>>, 0), "payload"),
     Malformed(Request("WRITE", 66001, 4, 1, <<>>, 0), "payload"),
     Malformed(Request("READ", 66000, 4, 1, <<>>, 1), "payload"),
     Malformed(Request("READ", 66000, 4, 2, <<>>, 1), "payload"),
     Malformed(Request("OPEN", 66000, 4, 0, <<"r">>, 0), "payload"),
     Malformed(Request("STAT", 66000, 4, 0, <<>>, 0), "payload")}

\* The exception specification: a session with one file open.
MessageThrow == \E req \in InputsThrow : Receive(req, MaxThrowReq)

NextThrow == MessageThrow \/ Completion

SpecThrow == InitOpened(1) /\ [][NextThrow]_vars

\* The parent emitters: with and without a closedSession listener, and with
\* no, one and two error listeners.
Listeners == [closedSession : {0, 1}, error : {0, 1, 2}]

\* The messages of the accept specification: complete requests, and packets
\* cut short in the header, in the handle field, and in the version of INIT.
InputsAccept ==
    {Request("OPEN", 66000, 4, 0, <<"r">>, 0),
     Request("READ", 66000, 4, 1, <<>>, 1),
     Request("READ", 66000, 4, 2, <<>>, 1),
     Malformed(Request("STAT", 66000, 4, 0, <<>>, 0), "header"),
     Malformed(Request("READ", 66000, 4, 1, <<>>, 1), "handle"),
     Malformed(Request("INIT", 5, 4, 0, <<>>, 0), "payload")}

\* The accept specification: a new session, or one with a file open, under
\* any of the parent emitters.
MessageAccept == \E req \in InputsAccept : Receive(req, MaxAcceptReq)

NextAccept == MessageAccept \/ Completion

SpecAccept ==
    (\E l \in Listeners : \E n \in {0, 1} : InitWith(n, Directory, ENOENT, l))
    /\ [][NextAccept]_vars

\* The errors of the close specification's close event: none, the two codes
\* of a client going away, another code, and an error without a code.
CloseErrors ==
    {Null, ChannelError("ECONNABORTED"), ChannelError("X_GOINGAWAY"),
     ChannelError("ECONNRESET"), ChannelError("")}

\* The channel closes: channel.on("close", ...).  A channel closes once.
Close(err) ==
    /\ closeEvents = <<>>
    /\ Install(onClose([State EXCEPT !.closeEvents = Append(@, err)], err))

\* The messages of the close specification.
InputsClose ==
    {Request("OPEN", 66000, 4, 0, <<"r">>, 0),
     Request("READ", 66000, 4, 1, <<>>, 1),
     Request("CLOSE", 66000, 4, 1, <<>>, 0)}

\* The close specification: a new session, or one with a file open, under
\* any of the parent emitters, whose channel closes at some moment.
MessageClose == \E req \in InputsClose : Receive(req, MaxCloseReq)

ChannelClose == \E err \in CloseErrors : Close(err)

NextClose == MessageClose \/ Completion \/ ChannelClose

SpecClose ==
    (\E l \in Listeners : \E n \in {0, 1} : InitWith(n, Directory, ENOENT, l))
    /\ [][NextClose]_vars

\* The slots at the two ends of the table, where the cursor wraps.
EdgeSlots == {1, 2, MAX_HANDLE_COUNT}

\* The tables of the table specification: only some of the edge slots
\* occupied, or every slot occupied but some of the edge slots.
Occupancies ==
    {S : S \in SUBSET EdgeSlots}
    \cup {(1 .. MAX_HANDLE_COUNT) \ S : S \in SUBSET EdgeSlots}

\* The session after OPENs and CLOSEs that have left the slots of `occupied`
\* in use and the cursor at `cursor`: OPENs have filled the table, the slot
\* before `cursor` was closed and opened again, which put the cursor there,
\* and the slots outside `occupied` were closed.  A record is numbered by the
\* slot it was made for; a closed one is tombstoned.  The messages and
\* responses of those requests are not kept.
InitTable(occupied, cursor) ==
    /\ fs = TRUE
    /\ channelOpen = TRUE
    /\ handles = [i \in occupied |-> i]
    /\ nextHandle = cursor
    /\ infos = [i \in 1 .. MAX_HANDLE_COUNT |->
                   [SftpHandleInfo(IF i \in occupied THEN i ELSE -1) EXCEPT !.handle = i]]
    /\ calls = {}
    /\ sent = EmptyBag
    /\ reqs = <<>>
    /\ bound = <<>>
    /\ issued = <<>>
    /\ opened = MAX_HANDLE_COUNT
    /\ closeLog = EmptyBag
    /\ late = EmptyBag
    /\ uncaught = FALSE
    /\ directory = Directory
    /\ dirPos = <<>>
    /\ readLog = <<>>
    /\ fault = ENOENT
    /\ emitted = <<>>
    /\ closeEvents = <<>>
    /\ listeners = NoListeners

\* The table specification: a table with gaps at its ends and the cursor at
\* an edge slot, the client opening and closing.
MessageTable == \E req \in InputsTable : Receive(req, MaxTableReq)

NextTable == MessageTable \/ Completion

SpecTable ==
    (\E occupied \in Occupancies : \E cursor \in EdgeSlots : InitTable(occupied, cursor))
    /\ [][NextTable]_vars

-----------------------------------------------------------------------------
(* What the claims speak of.                                               *)

Requests == 1 .. Len(reqs)

\* the packets sent that carry request id r
Responses(r) == {p \in BagToSet(sent) : p.type # "VERSION" /\ p.id = r}

\* how many packets were sent with request id r
ResponseCount(r) == BagCardinality([p \in Responses(r) |-> CopiesIn(p, sent)])

\* a backend call made for request r is in flight
InFlight(r) == \E c \in calls : c.response.id = r

\* request r waits in the task queue of record k
QueuedOn(r, k) == \E i \in 1 .. Len(infos[k].tasks) : infos[k].tasks[i] = r

Queued(r) == \E k \in 1 .. Len(infos) : QueuedOn(r, k)

InvalidHandle(r) == StatusPacket(r, "FAILURE", "Invalid handle")

TooManyHandles(r) == StatusPacket(r, "FAILURE", "Too many open handles")

\* the step is the arrival of a message, which is then the last of reqs'
Arrival == Len(reqs') = Len(reqs) + 1

Arrived == reqs'[Len(reqs')]

\* the step sends exactly packet p and changes nothing else of the session
OnlySends(p) ==
    /\ sent' = sent (+) SetToBag({p})
    /\ calls' = calls
    /\ issued'[Len(reqs')] = <<>>
    /\ infos' = infos
    /\ handles' = handles
    /\ nextHandle' = nextHandle
    /\ fs' = fs
    /\ channelOpen' = channelOpen
    /\ closeLog' = closeLog

-----------------------------------------------------------------------------
(* C1  Every request other than INIT gets exactly one response with its    *)
(* id: never two; while the session is active, a request without a         *)
(* response has a backend call in flight or waits in the queue of a handle *)
(* whose current request has a backend call in flight, so that it is       *)
(* answered once the backend calls complete; and when no backend call is   *)
(* in flight every request has been answered.                              *)
C1_ExactlyOneResponse ==
    /\ \A p \in BagToSet(sent) :
          p.type # "VERSION" => p.id \in Requests /\ reqs[p.id].type # "INIT"
    /\ \A r \in Requests :
          reqs[r].type # "INIT" =>
             /\ ResponseCount(r) <= 1
             /\ ResponseCount(r) = 1 => ~InFlight(r) /\ ~Queued(r)
             /\ fs /\ ResponseCount(r) = 0 => InFlight(r) \/ Queued(r)
             /\ \A k \in 1 .. Len(infos) :
                   fs /\ QueuedOn(r, k) =>
                      \E c \in calls : c.response.handleInfo = k /\ c.response.id < r
             /\ fs /\ calls = {} => ResponseCount(r) = 1

\* a request that waited behind another one on the same handle has been answered
C1_Witness ==
    /\ fs
    /\ calls = {}
    /\ \E r1, r2 \in Requests :
          /\ r1 < r2
          /\ bound[r1] # 0
          /\ bound[r1] = bound[r2]
          /\ issued[r1] # <<>>
          /\ issued[r2] # <<>>
          /\ ResponseCount(r1) = 1
          /\ ResponseCount(r2) = 1

(* C2  Requests bound to the same handle reach the backend in arrival      *)
(* order, one at a time: once a backend call has been made for the later   *)
(* request r2, the earlier request r1 has no call in flight and makes no   *)
(* further call.                                                           *)
C2_HandleFifo ==
    [][\A r1, r2 \in 1 .. Len(reqs') :
          (/\ r1 < r2
           /\ bound'[r1] # 0
           /\ bound'[r1] = bound'[r2]
           /\ issued'[r2] # <<>>)
          => /\ issued'[r1] = issued[r1]
             /\ ~\E c \in calls' : c.response.id = r1]_vars

\* two requests on one handle have both reached the backend, the second
\* while a third waits behind it
C2_Witness ==
    \E r1, r2, r3 \in Requests :
       /\ r1 < r2
       /\ r2 < r3
       /\ bound[r1] # 0
       /\ bound[r1] = bound[r2]
       /\ bound[r2] = bound[r3]
       /\ issued[r1] # <<>>
       /\ InFlight(r2)
       /\ QueuedOn(r3, bound[r3])

(* C3  Each backend handle has at most one backend call in flight that     *)
(* uses it, the close calls of end() included.                             *)
C3_OneCallPerHandle ==
    \A c1, c2 \in calls : c1.handle # 0 /\ c1.handle = c2.handle => c1 = c2

(* C4  Every HANDLE response carries an index from 1 to 512.               *)
C4_HandleIndexInRange ==
    \A p \in BagToSet(sent) :
       p.type = "HANDLE" => 1 <= p.h /\ p.h <= MAX_HANDLE_COUNT

(* C5  At most one CLOSE of a handle reaches the backend, as one close     *)
(* call, and is answered with the backend's result; every request that     *)
(* names the handle's index and arrives after that CLOSE, queued behind it *)
(* or finding the slot empty, makes no backend call and is answered        *)
(* FAILURE "Invalid handle": at once when the slot is empty, and with the  *)
(* answer to the CLOSE when it is queued.                                  *)
C5_CloseOnce ==
    \A rc \in Requests :
       reqs[rc].type = "CLOSE" /\ issued[rc] # <<>> =>
          /\ issued[rc] = <<"close">>
          /\ \A p \in Responses(rc) :
                \/ p = StatusPacket(rc, "OK", "Success")
                \/ \E e \in BackendErrors :
                      p = StatusPacket(rc, SftpException(Errno(e), e.isPublic, e.message).code,
                                       SftpException(Errno(e), e.isPublic, e.message).message)
          /\ \A r \in Requests :
                (/\ r > rc
                 /\ reqs[r].type \in HandleBound
                 /\ reqs[r].hlen = 4
                 /\ reqs[r].h = reqs[rc].h
                 /\ bound[r] \in {0, bound[rc]})
                => /\ issued[r] = <<>>
                   /\ Responses(r) \subseteq {InvalidHandle(r)}
                   /\ bound[r] = 0 \/ ResponseCount(rc) = 1 => ResponseCount(r) = 1

\* a CLOSE that waited in its handle's queue has reached the backend and been
\* answered, and the request that waited behind it has been answered
\* "Invalid handle"
C5_Witness ==
    \E rc, r1 \in Requests :
       /\ reqs[rc].type = "CLOSE"
       /\ issued[rc] = <<"close">>
       /\ ResponseCount(rc) = 1
       /\ rc < r1
       /\ bound[r1] # 0
       /\ bound[r1] = bound[rc]
       /\ InvalidHandle(r1) \in BagToSet(sent)

(* C6  When the session has ended and no backend call is in flight, every  *)
(* backend handle that was opened has been passed to fs.close exactly      *)
(* once; and at no time has one been passed to it twice.                   *)
C6_ClosedExactlyOnce ==
    /\ \A t \in 1 .. opened : CopiesIn(t, closeLog) <= 1
    /\ ~fs /\ calls = {} => \A t \in 1 .. opened : CopiesIn(t, closeLog) = 1

(* C7  After end() has dropped the filesystem reference the session        *)
(* invokes no backend operation.                                           *)
C7_NoBackendCallAfterEnd ==
    late = EmptyBag

(* C8  As stated: with all 512 slots occupied, an OPEN or OPENDIR is       *)
(* answered FAILURE "Too many open handles" and changes nothing else.      *)
C8_FullTableAsStated ==
    [][(/\ Arrival
        /\ fs
        /\ Cardinality(DOMAIN handles) = MAX_HANDLE_COUNT
        /\ Arrived.type \in {"OPEN", "OPENDIR"})
       => OnlySends(TooManyHandles(Len(reqs')))]_vars

(* C8  As amended: with all 512 slots occupied, an OPENDIR, or an OPEN     *)
(* whose flags decode to at least one mode, of a declared length of at     *)
(* most 66000, is answered FAILURE "Too many open handles": no backend     *)
(* call is made, the table, its records and the cursor are unchanged, and  *)
(* the session stays active.                                               *)
C8_FullTable ==
    [][(/\ Arrival
        /\ fs
        /\ Cardinality(DOMAIN handles) = MAX_HANDLE_COUNT
        /\ Arrived.type \in {"OPEN", "OPENDIR"}
        /\ Arrived.length <= MaxPacketLength
        /\ Arrived.type = "OPEN" => Arrived.modes # <<>>)
       => OnlySends(TooManyHandles(Len(reqs')))]_vars

\* with the table still full, an OPEN and an OPENDIR were refused and a later
\* request on an existing handle was served
C8_Witness ==
    /\ fs
    /\ Cardinality(DOMAIN handles) = MAX_HANDLE_COUNT
    /\ \E r1, r2, r3 \in Requests :
          /\ reqs[r1].type = "OPEN"
          /\ reqs[r2].type = "OPENDIR"
          /\ TooManyHandles(r1) \in BagToSet(sent)
          /\ TooManyHandles(r2) \in BagToSet(sent)
          /\ r1 < r3
          /\ r2 < r3
          /\ issued[r3] = <<"fstat">>
          /\ [type |-> "ATTRS", id |-> r3] \in BagToSet(sent)

(* C9  A handle-bound request whose handle field is not 4 bytes long, or   *)
(* whose index has no entry in the table, is answered FAILURE "Invalid     *)
(* handle": no backend call is made, no record (lock, queue) and no slot   *)
(* changes, and the session is not ended.                                  *)
C9_InvalidHandle ==
    [][(/\ Arrival
        /\ Arrived.type \in HandleBound
        /\ Arrived.hlen # 4 \/ Arrived.h \notin DOMAIN handles)
       => OnlySends(InvalidHandle(Len(reqs')))]_vars

\* in an active session with a handle open, a request with a handle field of
\* 5 bytes and one with an unknown index have been answered "Invalid handle"
C9_Witness ==
    /\ fs
    /\ DOMAIN handles # {}
    /\ \E r1, r2 \in Requests :
          /\ reqs[r1].hlen # 4
          /\ reqs[r1].h \in DOMAIN handles
          /\ InvalidHandle(r1) \in BagToSet(sent)
          /\ reqs[r2].hlen = 4
          /\ reqs[r2].h \notin DOMAIN handles
          /\ InvalidHandle(r2) \in BagToSet(sent)

(* C10  Every request other than INIT whose declared length is above       *)
(* 66000 makes no backend call and is answered BAD_MESSAGE, at once while  *)
(* the session is active unless it waits behind a locked handle.           *)
C10_OversizeBadMessage ==
    \A r \in Requests :
       reqs[r].type # "INIT" /\ reqs[r].length > MaxPacketLength =>
          /\ issued[r] = <<>>
          /\ Responses(r) \subseteq {StatusPacket(r, "BAD_MESSAGE", "Packet too long")}

-----------------------------------------------------------------------------
(* READDIR.                                                                *)

\* the items of the NAME response to request r, if it has one
ItemsOf(r) ==
    LET ps == {p \in Responses(r) : p.type = "NAME"}
    IN  IF ps = {} THEN <<>> ELSE (CHOOSE p \in ps : TRUE).items

\* the items of the NAME responses to the requests 1 .. r, in request order,
\* which for one handle is the order of the responses
RECURSIVE DeliveredUpTo(_)
DeliveredUpTo(r) == IF r = 0 THEN <<>> ELSE DeliveredUpTo(r - 1) \o ItemsOf(r)

\* the items a READDIR in progress has written into its response so far
InProgress ==
    IF calls = {} THEN <<>> ELSE (CHOOSE c \in calls : TRUE).written

\* no backend call has reported an error: READDIR's only other status is EOF
NoBackendError ==
    \A p \in BagToSet(sent) : p.type = "STATUS" => p.code = "EOF"

\* the writer position after the items have been written behind the item count
RECURSIVE PositionAfter(_, _)
PositionAfter(position, items) ==
    IF Len(items) = 0 THEN position
    ELSE PositionAfter(writeItem(position, Head(items)), Tail(items))

(* C11  With no backend error, at every moment the items delivered in NAME *)
(* responses, then those written into the response in progress, then those *)
(* stashed on the handle, then those the backend has yet to return, are    *)
(* exactly the directory, each item once and in order; no NAME response is *)
(* empty; and a READDIR is answered EOF only when the responses before it  *)
(* have delivered the whole directory.                                     *)
C11_ReaddirDeliversAll ==
    NoBackendError =>
       /\ DeliveredUpTo(Len(reqs)) \o InProgress \o infos[1].items
             \o Remaining(State, 1) = directory
       /\ \A r \in Requests :
             /\ \A p \in Responses(r) : p.type = "NAME" => Len(p.items) > 0
             /\ StatusPacket(r, "EOF", "EOF") \in Responses(r)
                   => DeliveredUpTo(r - 1) = directory

\* a directory of DirLen items has been delivered by two NAME responses, the
\* first one ending at the soft limit, and the third READDIR was answered EOF
C11_Witness ==
    /\ NoBackendError
    /\ Len(directory) = DirLen
    /\ \E r \in Requests :
          /\ r >= 3
          /\ StatusPacket(r, "EOF", "EOF") \in Responses(r)
          /\ Len(ItemsOf(1)) > 0
          /\ Len(ItemsOf(2)) > 0
          /\ PositionAfter(NameItemsStart, ItemsOf(1)) > ReaddirSoftLimit
          /\ ItemsOf(1) \o ItemsOf(2) = directory

(* C12  As stated: the writer position of a NAME packet sent for a READDIR *)
(* does not exceed 0x7000.                                                 *)
C12_PositionWithinLimitAsStated ==
    \A r \in Requests :
       PositionAfter(NameItemsStart, ItemsOf(r)) <= ReaddirSoftLimit

(* C12  As amended: the item that takes the writer position past 0x7000 is *)
(* written and is the last item of its packet, the items after it being    *)
(* stashed: in a NAME packet sent for a READDIR the position before the    *)
(* last item does not exceed 0x7000, and the items stashed on the handle   *)
(* directly follow the items delivered.                                    *)
C12_SoftLimit ==
    /\ \A r \in Requests :
          Len(ItemsOf(r)) > 0 =>
             PositionAfter(NameItemsStart,
                           SubSeq(ItemsOf(r), 1, Len(ItemsOf(r)) - 1)) <= ReaddirSoftLimit
    /\ NoBackendError /\ infos[1].items # <<>> =>
          /\ calls = {}
          /\ \E n \in 1 .. Len(infos[1].items) :
                DeliveredUpTo(Len(reqs)) \o SubSeq(infos[1].items, 1, n)
                   = SubSeq(directory, 1, Len(DeliveredUpTo(Len(reqs))) + n)

\* a NAME packet whose last item took it past 0x7000 has been sent, and the
\* item after it waits in the stash
C12_Witness ==
    /\ NoBackendError
    /\ infos[1].items # <<>>
    /\ \E r \in Requests :
          /\ PositionAfter(NameItemsStart, ItemsOf(r)) > ReaddirSoftLimit
          /\ infos[1].items[1].name = ItemsOf(r)[Len(ItemsOf(r))].name + 1

-----------------------------------------------------------------------------
(* READ.                                                                   *)

(* C13  For a READ with requested length n the backend is asked for        *)
(* min(n, 0x8000) bytes, once; when it reports a positive number of bytes  *)
(* read, the one response is DATA of exactly that many bytes, which is at  *)
(* most 0x8000; when it reports zero, the one response is status EOF.      *)
C13_ReadCap ==
    /\ \A c \in calls :
          c.op = "read" =>
             /\ reqs[c.response.id].int32 <= ReadCap => c.count = reqs[c.response.id].int32
             /\ reqs[c.response.id].int32 > ReadCap => c.count = ReadCap
    /\ \A r \in Requests :
          reqs[r].type = "READ" =>
             /\ Len(readLog[r]) <= 1
             /\ \A p \in Responses(r) :
                   /\ p.type = "DATA" =>
                         readLog[r] = <<p.length>> /\ 0 < p.length /\ p.length <= ReadCap
                   /\ p = StatusPacket(r, "EOF", "EOF") => readLog[r] = <<0>>
             /\ Len(readLog[r]) = 1 /\ readLog[r] # <<0>> =>
                   Responses(r) = {[type |-> "DATA", id |-> r, length |-> readLog[r][1]]}
             /\ readLog[r] = <<0>> => Responses(r) = {StatusPacket(r, "EOF", "EOF")}

\* a READ of 0x8001 bytes has been answered with 0x8000 bytes of DATA, a READ
\* of 0x8000 bytes with one byte, and a READ with EOF
C13_Witness ==
    \E r1, r2, r3 \in Requests :
       /\ reqs[r1].int32 = ReadCap + 1
       /\ [type |-> "DATA", id |-> r1, length |-> ReadCap] \in Responses(r1)
       /\ reqs[r2].int32 = ReadCap
       /\ [type |-> "DATA", id |-> r2, length |-> 1] \in Responses(r2)
       /\ readLog[r3] = <<0>>
       /\ StatusPacket(r3, "EOF", "EOF") \in Responses(r3)

-----------------------------------------------------------------------------
(* CLOSE and the table.                                                    *)

\* the step issues the backend close of CLOSE request r
ClosesNow(r) ==
    /\ r \in 1 .. Len(reqs')
    /\ reqs'[r].type = "CLOSE"
    /\ issued'[r] = <<"close">>
    /\ r \in Requests => issued[r] = <<>>

\* the step is the completion of the backend close of a CLOSE request
CloseCompletes == \E c \in calls \ calls' : c.op = "close" /\ c.k = "success"

(* C14  The step in which a CLOSE is executed removes the entry of the     *)
(* index it names from the table, so that the backend close is in flight   *)
(* with the slot already empty, and leaves every other entry and the       *)
(* cursor as they were; the step in which the backend close completes,     *)
(* with or without an error, changes neither the table nor the cursor.     *)
C14_CloseFreesSlot ==
    [][/\ \A r \in 1 .. Len(reqs') :
             ClosesNow(r) =>
                /\ reqs'[r].h \in DOMAIN handles
                /\ handles[reqs'[r].h] = bound'[r]
                /\ DOMAIN handles' = DOMAIN handles \ {reqs'[r].h}
                /\ \A i \in DOMAIN handles' : handles'[i] = handles[i]
                /\ nextHandle' = nextHandle
                /\ \E c \in calls' : c.op = "close" /\ c.response.id = r
       /\ CloseCompletes => handles' = handles /\ nextHandle' = nextHandle]_vars

\* an OPEN took slot 2 beside the open slot 1 and got its HANDLE, a CLOSE of
\* index 2 was executed and answered, and the occupied slots are as before
C14_Witness ==
    /\ DOMAIN handles = {1}
    /\ nextHandle = 3
    /\ \E r1, r2 \in Requests :
          /\ r1 < r2
          /\ [type |-> "HANDLE", id |-> r1, h |-> 2] \in Responses(r1)
          /\ reqs[r2].type = "CLOSE"
          /\ reqs[r2].h = 2
          /\ issued[r2] = <<"close">>
          /\ ResponseCount(r2) = 1

-----------------------------------------------------------------------------
(* INIT.                                                                   *)

VersionPacket == [type |-> "VERSION", version |-> 3]

(* C17  In a session that has not ended, the arrival of an INIT, whatever  *)
(* version it carries, sends exactly one VERSION packet with value 3 and   *)
(* no request id, makes no backend call and changes no table entry, record *)
(* (lock, queue) or cursor.                                                *)
C17_InitVersion ==
    [][(/\ Arrival
        /\ fs
        /\ Arrived.type = "INIT")
       => /\ OnlySends(VersionPacket)
          /\ DOMAIN VersionPacket = {"type", "version"}]_vars

\* an INIT carrying version 6 arrived while a handle was locked by a request
\* in flight, and a VERSION packet with value 3 has been sent
C17_Witness ==
    /\ fs
    /\ VersionPacket \in BagToSet(sent)
    /\ \E r1, r2 \in Requests :
          /\ r1 < r2
          /\ InFlight(r1)
          /\ bound[r1] # 0
          /\ infos[bound[r1]].locked
          /\ reqs[r2].type = "INIT"
          /\ reqs[r2].int32 = 6

-----------------------------------------------------------------------------
(* OPEN.                                                                   *)

\* the status sent for a backend error
ErrorStatuses(r) ==
    {StatusPacket(r, SftpException(Errno(e), e.isPublic, e.message).code,
                  SftpException(Errno(e), e.isPublic, e.message).message) :
        e \in BackendErrors}

UnsupportedFlags(r) == StatusPacket(r, "FAILURE", "Unsupported flags")

\* the record has no slot in the table
Unlisted(table, handleInfo) == \A i \in DOMAIN table : table[i] # handleInfo

\* the calls the step issues for request r
IssuedNow(r) == {c \in calls' \ calls : c.response.id = r}

\* what the step sends with the id of request r
SentNow(r) == {p \in BagToSet(sent') : p.type # "VERSION" /\ p.id = r
                                       /\ CopiesIn(p, sent') > CopiesIn(p, sent)}

(* C20  For an OPEN whose flags decode to the modes m1..mk: the backend    *)
(* calls made for it are open, close, open, ... in turn, at most k opens,  *)
(* the i-th open with mode mi, each close with the descriptor of the open  *)
(* before it; when the k-th open succeeds its descriptor is stored in the  *)
(* record and the one HANDLE reply is sent; when an open or a close        *)
(* fails, the one reply is the mapped error status, no further call is     *)
(* made and the record has no slot; with k = 0 the reply is FAILURE        *)
(* "Unsupported flags" and nothing is allocated.  An OPEN with k >= 1      *)
(* that arrives in an active session with a free slot and a length of at   *)
(* most 66000 takes a slot and calls open(m1) on arrival.                  *)
C20_OpenModes ==
    [][\A r \in 1 .. Len(reqs') :
          reqs'[r].type = "OPEN" =>
             LET m == reqs'[r].modes
                 k == Len(m)
                 calls0 == IF r \in Requests THEN {c \in calls : c.response.id = r} ELSE {}
                 issued0 == IF r \in Requests THEN issued[r] ELSE <<>>
                 done0 == calls0 \ calls'
             IN  /\ Len(issued'[r]) <= 2 * k - 1 \/ issued'[r] = <<>>
                 /\ \A i \in 1 .. Len(issued'[r]) :
                       issued'[r][i] = IF i % 2 = 1 THEN "open" ELSE "close"
                 /\ Cardinality(IssuedNow(r)) = Len(issued'[r]) - Len(issued0)
                 /\ Cardinality(IssuedNow(r)) <= 1
                 /\ \A c \in IssuedNow(r) :
                       /\ c.op = "open" =>
                             /\ c.mode = m[(Len(issued'[r]) + 1) \div 2]
                             /\ c.modes = SubSeq(m, (Len(issued'[r]) + 1) \div 2 + 1, k)
                       /\ c.op = "close" => c.handle = opened' /\ opened' = opened + 1
                 \* the arrival
                 /\ r \notin Requests /\ fs /\ reqs'[r].length <= MaxPacketLength =>
                       /\ k = 0 => OnlySends(UnsupportedFlags(r))
                       /\ k > 0 /\ Cardinality(DOMAIN handles) < MAX_HANDLE_COUNT =>
                             /\ \E c \in IssuedNow(r) :
                                   /\ c.op = "open"
                                   /\ c.info \in {handles'[i] : i \in DOMAIN handles'}
                                   /\ Unlisted(handles, c.info)
                             /\ SentNow(r) = {}
                 \* the completion of an open or of a close of this OPEN
                 /\ \A c \in done0 :
                       \/ /\ c.op = "open"                 \* the last open succeeded
                          /\ c.modes = <<>>
                          /\ opened' = opened + 1
                          /\ infos'[c.info].handle = opened'
                          /\ SentNow(r) = {[type |-> "HANDLE", id |-> r, h |-> infos'[c.info].h]}
                          /\ IssuedNow(r) = {}
                       \/ /\ c.op = "open"                 \* an earlier open succeeded
                          /\ c.modes # <<>>
                          /\ opened' = opened + 1
                          /\ SentNow(r) = {}
                          /\ \E d \in IssuedNow(r) : d.op = "close"
                       \/ /\ c.op = "close"                \* a close succeeded
                          /\ opened' = opened
                          /\ SentNow(r) = {}
                          /\ \E d \in IssuedNow(r) : d.op = "open"
                       \/ /\ opened' = opened              \* the open or the close failed
                          /\ SentNow(r) \in {{p} : p \in ErrorStatuses(r)}
                          /\ IssuedNow(r) = {}
                          /\ Unlisted(handles', c.info)
                 /\ ResponseCount(r)' <= 1]_vars

\* an OPEN with three modes got its HANDLE after open, close, open, close,
\* open, and an OPEN with two modes was answered with an error after its
\* first close failed
C20_Witness ==
    \E r1, r2 \in Requests :
       /\ Len(reqs[r1].modes) = 3
       /\ issued[r1] = <<"open", "close", "open", "close", "open">>
       /\ \E p \in Responses(r1) : p.type = "HANDLE"
       /\ Len(reqs[r2].modes) = 2
       /\ issued[r2] = <<"open", "close">>
       /\ Responses(r2) \in {{p} : p \in ErrorStatuses(r2)}

-----------------------------------------------------------------------------
(* The end of the session, and independent handles.                        *)

(* C15  After the session has ended, a queued task that leaves its queue   *)
(* replies FAILURE "Invalid handle", and once no backend call is in flight *)
(* no task is left in a queue.                                             *)
C15_QueuedTasksAnswered ==
    [][/\ \A r \in Requests :
             ~fs /\ Queued(r) /\ ~Queued(r)' => InvalidHandle(r) \in BagToSet(sent')
       /\ ~fs' /\ calls' = {} => \A r \in Requests : ~Queued(r)']_vars

(* C16  After the session has ended, the arrival of a message sends        *)
(* nothing, calls no backend operation and changes no record's lock or     *)
(* queue.                                                                  *)
C16_ProcessAfterEndNoOp ==
    [][Arrival /\ ~fs => sent' = sent /\ calls' = calls /\ infos' = infos]_vars

(* C18  In an active session a handle-bound request that arrives for an    *)
(* unlocked handle is executed in the step of its arrival, whatever the    *)
(* other handles are doing: it is not queued, its backend call is issued   *)
(* (or, when it is longer than 66000, its BAD_MESSAGE sent), and no other  *)
(* record and no call in flight changes.  The completion of a call on one  *)
(* handle changes no other handle's record and none of its calls.          *)
C18_HandlesIndependent ==
    [][/\ (/\ Arrival
           /\ fs
           /\ Arrived.type \in HandleBound
           /\ bound'[Len(reqs')] # 0
           /\ ~infos[bound'[Len(reqs')]].locked)
          => LET r == Len(reqs')
                 b == bound'[r]
             IN  /\ \A k \in 1 .. Len(infos') :
                       \A i \in 1 .. Len(infos'[k].tasks) : infos'[k].tasks[i] # r
                 /\ Arrived.length <= MaxPacketLength =>
                       /\ issued'[r] # <<>>
                       /\ \E c \in calls' \ calls : c.response.id = r
                 /\ Arrived.length > MaxPacketLength =>
                       StatusPacket(r, "BAD_MESSAGE", "Packet too long") \in BagToSet(sent')
                 /\ calls \subseteq calls'
                 /\ \A k \in 1 .. Len(infos) : k # b => infos'[k] = infos[k]
       /\ \A c \in calls \ calls' :
             c.response.handleInfo # 0 =>
                /\ \A k \in 1 .. Len(infos) :
                      k # c.response.handleInfo => infos'[k] = infos[k]
                /\ \A d \in calls \cup calls' :
                      d.response.handleInfo # c.response.handleInfo =>
                         d \in calls /\ d \in calls']_vars

\* two handles each have a backend call in flight, the second issued on
\* arrival while the first handle was locked with a task in its queue
C18_Witness ==
    /\ fs
    /\ \E r1, r2, r3 \in Requests :
          /\ r1 < r2
          /\ r2 < r3
          /\ bound[r1] # 0
          /\ bound[r2] = bound[r1]
          /\ bound[r3] # 0
          /\ bound[r3] # bound[r1]
          /\ InFlight(r1)
          /\ QueuedOn(r2, bound[r1])
          /\ InFlight(r3)

-----------------------------------------------------------------------------
(* The rolling cursor.                                                     *)

\* how many times the cursor advances from slot a to reach slot b
Advances(a, b) == (b - a) % MAX_HANDLE_COUNT

\* the slots the step allocates, and those it clears
Allocated == DOMAIN handles' \ DOMAIN handles

Cleared == DOMAIN handles \ DOMAIN handles'

\* the step is the arrival of an OPEN or OPENDIR that gets as far as createHandleInfo
AsksForSlot ==
    /\ Arrival
    /\ fs
    /\ Arrived.length <= MaxPacketLength
    /\ \/ Arrived.type = "OPENDIR"
       \/ Arrived.type = "OPEN" /\ Arrived.modes # <<>>

(* C19  A step allocates at most one slot: the first empty one met when    *)
(* going from the cursor forward through 1..512 with 512 followed by 1,    *)
(* never slot 0; the cursor is then the slot after it (1 after 512) and    *)
(* the record in the slot carries its index.  An OPEN or OPENDIR finds no  *)
(* slot (and is answered "Too many open handles") exactly when all 512     *)
(* are occupied.  A step that clears slots leaves the cursor unchanged,    *)
(* and no step both allocates and clears.                                  *)
C19_RollingCursor ==
    [][/\ Cardinality(Allocated) <= 1
       /\ \A h \in Allocated :
             /\ 1 <= h
             /\ h <= MAX_HANDLE_COUNT
             /\ \A i \in 1 .. MAX_HANDLE_COUNT :
                   Advances(nextHandle, i) < Advances(nextHandle, h)
                      => i \in DOMAIN handles
             /\ nextHandle' = IF h = MAX_HANDLE_COUNT THEN 1 ELSE h + 1
             /\ infos'[handles'[h]].h = h
             /\ handles'[h] \notin {handles[i] : i \in DOMAIN handles}
             /\ Cleared = {}
       /\ AsksForSlot =>
             /\ Allocated = {} <=> Cardinality(DOMAIN handles) = MAX_HANDLE_COUNT
             /\ Allocated = {} <=> TooManyHandles(Len(reqs')) \in BagToSet(sent')
       /\ Allocated = {} => nextHandle' = nextHandle
       /\ \A h \in DOMAIN handles \ Cleared : handles'[h] = handles[h]
       /\ DOMAIN handles' \subseteq 1 .. MAX_HANDLE_COUNT]_vars

\* with only slot 1 free, an OPEN or OPENDIR took slot 1 for a new record and
\* left the cursor at 2; the next one, the table being full, was refused
C19_Witness ==
    /\ Cardinality(DOMAIN handles) = MAX_HANDLE_COUNT
    /\ nextHandle = 2
    /\ infos[handles[1]].h = 1
    /\ handles[1] > MAX_HANDLE_COUNT
    /\ Len(reqs) = 2
    /\ TooManyHandles(2) \in BagToSet(sent)

-----------------------------------------------------------------------------
(* C21: the status of a backend error.                                     *)

\* the status code of an errno
StatusCodeOf(errno) ==
    CASE errno = 1 -> "EOF"
      [] errno = 3 -> "PERMISSION_DENIED"
      [] errno \in {34, -2, -4058, 57} -> "NO_SUCH_FILE"
      [] errno = 35 -> "OP_UNSUPPORTED"
      [] OTHER -> "FAILURE"

\* the statuses sent for request r that report an error
ErrorResponses(r) == {p \in Responses(r) : p.type = "STATUS" /\ p.code # "OK"}

\* C21: the status sent for a backend error has the code its errno maps to
\* (1 EOF, 3 PERMISSION_DENIED, 34, -2, -4058 and 57 NO_SUCH_FILE, 35
\* OP_UNSUPPORTED, every other errno and a missing one FAILURE).  For a listed
\* errno the message is the table's text whatever the error's own message
\* and public mark are; for an unlisted errno it is the error's own message
\* if the error is public, and otherwise the generic text, which names the
\* errno and is not the error's message.
C21_StatusByErrno ==
    \A r \in Requests : \A p \in ErrorResponses(r) :
        LET errno == IF fault.hasErrno THEN fault.errno ELSE 0
        IN  /\ p.code = StatusCodeOf(errno)
            /\ errno \in ListedErrnos =>
                   /\ p.message = SftpException(errno, ~fault.isPublic, "").message
                   /\ p.message # fault.message
            /\ errno \notin ListedErrnos /\ fault.isPublic => p.message = fault.message
            /\ errno \notin ListedErrnos /\ ~fault.isPublic =>
                   p.message = "Unknown error (" \o ToString(errno) \o ")"

\* a request was answered with the message of a public error that has no errno
C21_Witness ==
    /\ ~fault.hasErrno
    /\ fault.isPublic
    /\ \E r \in Requests : ErrorResponses(r) = {StatusPacket(r, "FAILURE", fault.message)}

-----------------------------------------------------------------------------
(* C22: an exception thrown while processRequest handles a request.        *)

InternalServerError(r) == StatusPacket(r, "FAILURE", "Internal server error")

\* processRequest has handled request r and an exception was thrown in it:
\* the payload is cut short, the length has passed the check, and a
\* handle-bound request has resolved its handle and has left the queue of a
\* record that is still listed
ThrewInRequest(r) ==
    /\ ThrowsInRequest(reqs[r])
    /\ reqs[r].length <= MaxPacketLength
    /\ reqs[r].type \in HandleBound =>
           /\ bound[r] # 0
           /\ infos[bound[r]].h >= 0
           /\ ~QueuedOn(r, bound[r])

\* C22: a request in whose handling an exception was thrown has exactly one
\* response, FAILURE "Internal server error", and no backend call; the session
\* is active and has emitted nothing; the record of a handle-bound request is
\* unlocked with an empty queue, or another request bound to it is running.
C22_ExceptionInRequest ==
    \A r \in Requests :
        ThrewInRequest(r) =>
            /\ Responses(r) = {InternalServerError(r)}
            /\ ResponseCount(r) = 1
            /\ issued[r] = <<>>
            /\ fs /\ channelOpen /\ emitted = <<>>
            /\ bound[r] # 0 =>
                   \/ ~infos[bound[r]].locked /\ infos[bound[r]].tasks = <<>>
                   \/ \E r2 \in Requests \ {r} : bound[r2] = bound[r] /\ InFlight(r2)

\* a WRITE was answered, the malformed request after it on the same handle was
\* answered with the internal error, and the request after that is running
C22_Witness ==
    \E r \in Requests :
        /\ ThrewInRequest(r) /\ bound[r] # 0
        /\ InternalServerError(r) \in Responses(r)
        /\ \E r1 \in 1 .. (r - 1) : bound[r1] = bound[r] /\ ResponseCount(r1) = 1
        /\ \E r2 \in (r + 1) .. Len(reqs) : bound[r2] = bound[r] /\ InFlight(r2)

-----------------------------------------------------------------------------
(* C23: an exception that escapes _process.                                *)

\* the `error` event of an exception of the reader was emitted on the parent
ErrorEmitted ==
    \E i \in 1 .. Len(emitted) : emitted[i] = [name |-> "error", err |-> ReaderException]

\* C23: once a message has made an exception escape _process, the `error`
\* event has been emitted with the exception, the session has ended (channel
\* closed, filesystem dropped), and the message has no response.
C23_EscapeEndsSession ==
    \A r \in Requests :
        ThrowsInProcess(reqs[r]) =>
            /\ ErrorEmitted
            /\ ~channelOpen
            /\ ~fs
            /\ ResponseCount(r) = 0

-----------------------------------------------------------------------------
(* C24: the channel's close event.                                         *)

\* the events of a name emitted so far, in order
Emitted(name) == SelectSeq(emitted, LAMBDA e : e.name = name)

\* the error a close with err reports
Reported(err) ==
    IF err.isNull \/ err.code \in {"ECONNABORTED", "X_GOINGAWAY"} THEN Null ELSE err

\* C24 as stated: a close with an error other than ECONNABORTED and
\* X_GOINGAWAY is re-emitted as `error` whenever the parent has an `error`
\* listener, whether or not it has a closedSession listener.
C24_ReemittedAsStated ==
    \A i \in 1 .. Len(closeEvents) :
        ~Reported(closeEvents[i]).isNull /\ listeners["error"] > 0 =>
            Emitted("error") = <<[name |-> "error", err |-> closeEvents[i]]>>

\* C24: before the channel closes no closedSession is emitted.  After a close
\* with err the session has ended and closedSession has been emitted once,
\* with null if err is null or has the code ECONNABORTED or X_GOINGAWAY and
\* with err otherwise.  `error` is emitted, once and with err, exactly when
\* the reported error is not null, the parent has no closedSession listener
\* and it has at least one `error` listener.
C24_CloseEvent ==
    /\ closeEvents = <<>> => emitted = <<>>
    /\ \A i \in 1 .. Len(closeEvents) :
          LET err == closeEvents[i]
          IN  /\ ~fs /\ ~channelOpen
              /\ Emitted("closedSession")
                    = <<[name |-> "closedSession", err |-> Reported(err)]>>
              /\ Emitted("error")
                    = IF /\ ~Reported(err).isNull
                         /\ listeners["closedSession"] = 0
                         /\ listeners["error"] > 0
                      THEN <<[name |-> "error", err |-> err]>>
                      ELSE <<>>

\* a channel failure was re-emitted as `error`, nobody listening to closedSession
C24_Witness ==
    /\ closeEvents = <<ChannelError("ECONNRESET")>>
    /\ emitted = <<[name |-> "closedSession", err |-> ChannelError("ECONNRESET")],
                   [name |-> "error", err |-> ChannelError("ECONNRESET")]>>

-----------------------------------------------------------------------------
(* C25: the lock of a handle record.                                       *)

\* the requests bound to record k that have started executing (they are not
\* in its queue) and have not sent a response
Executing(k) ==
    {r \in Requests : bound[r] = k /\ ~QueuedOn(r, k) /\ ResponseCount(r) = 0}

\* C25: while the session is active, a record with a non-empty queue is
\* locked; a locked record has exactly one request that is executing, and an
\* unlocked record has none, so a record whose requests have all been
\* answered and whose queue is empty is unlocked.
C25_LockInvariant ==
    fs => \A k \in 1 .. Len(infos) :
            /\ Len(infos[k].tasks) > 0 => infos[k].locked
            /\ infos[k].locked => Cardinality(Executing(k)) = 1
            /\ ~infos[k].locked => Executing(k) = {}

\* in an active session a record is locked by a request that is executing,
\* with another one in its queue, after a first one was answered and the
\* record unlocked in between
C25_Witness ==
    /\ fs
    /\ \E k \in 1 .. Len(infos) :
          /\ infos[k].locked
          /\ Len(infos[k].tasks) = 1
          /\ \E r \in Requests : bound[r] = k /\ ResponseCount(r) = 1
          /\ \E r \in Executing(k) : InFlight(r)

-----------------------------------------------------------------------------
(* C26: the table and the records' indexes.                                *)

\* every occupied slot is one of 1..512 and holds a record whose h is the
\* slot; no record is in two slots; a record with a negative h is in no slot,
\* and one with another h is in the slot h
TableConsistent ==
    /\ \A i \in DOMAIN handles :
          /\ 1 <= i /\ i <= MAX_HANDLE_COUNT
          /\ infos[handles[i]].h = i
    /\ Cardinality({handles[i] : i \in DOMAIN handles}) = Cardinality(DOMAIN handles)
    /\ \A k \in 1 .. Len(infos) :
          IF infos[k].h < 0
          THEN \A i \in DOMAIN handles : handles[i] # k
          ELSE infos[k].h \in DOMAIN handles /\ handles[infos[k].h] = k

\* "Handle not found" was thrown: in a callback, or in processRequest, which
\* answers the CLOSE with the internal error
HandleNotFoundThrown ==
    \/ uncaught
    \/ \E r \in Requests : InternalServerError(r) \in Responses(r)

\* C26: in every state the table is consistent and deleteHandleInfo has not
\* thrown; in every step a record whose h is -1 keeps it.
C26_TableInvariant ==
    /\ [](TableConsistent /\ ~HandleNotFoundThrown)
    /\ [][\A k \in 1 .. Len(infos) : infos[k].h = -1 => infos'[k].h = -1]_vars

\* The record of slot 1 was closed and the slot given to a new record while
\* the closed one is still there, marked.
C26_Witness ==
    \E k \in 1 .. Len(infos) :
        /\ infos[k].h = -1
        /\ 1 \in DOMAIN handles /\ handles[1] # k
        /\ \E r \in Requests : bound[r] = k /\ reqs[r].type = "CLOSE"

-----------------------------------------------------------------------------
(* C27: the backend handle of a record whose open has not completed.       *)

\* the backend operations that take a backend handle
HandleOps == {"read", "write", "fstat", "fsetstat", "readdir", "close"}

\* C27: no backend operation that takes a handle is in flight with the unset
\* handle (0) of a record whose OPEN or OPENDIR has not completed.
C27_NoUnsetHandle ==
    \A c \in calls : c.op \in HandleOps => c.handle # 0

-----------------------------------------------------------------------------
(* C28: a READDIR answered with an error status.                           *)

\* C28: whatever READDIR requests were answered with an error status, no
\* item is lost: the items delivered in NAME responses, then those written
\* into the response in progress, then those stashed on the handle, then
\* those the backend has yet to return, are the directory.
C28_NoItemLost ==
    DeliveredUpTo(Len(reqs)) \o InProgress \o infos[1].items \o Remaining(State, 1)
        = directory

====
